---- MODULE Spec2Model ----
(***************************************************************************)
(* Model of chan::channel<Ts...> (src/channel.hpp): a FIFO queue guarded   *)
(* by one mutex and one condition variable, with close(), seal(),          *)
(* send<wait_while_full>() and recv<wait>().                               *)
(*                                                                         *)
(* Granularity.  Every field of the channel is read and written only while *)
(* the mutex m is held, so one step of the model is one whole lock hold    *)
(* (from the unique_lock's construction, or the return from cv.wait, up to *)
(* lock.unlock(), the next cv.wait or the return), or one notify call made *)
(* after lock.unlock().  The mutex is therefore free in every state of the *)
(* model.  The wait set of cv is the set of threads whose pc is send_wait  *)
(* or recv_wait; notify_one moves an arbitrary member of it to the         *)
(* matching woken pc, notify_all moves all of them.  lastRet is what the   *)
(* step just taken returned to its caller: "send_true", "send_false",     *)
(* "recv_true" or "recv_false" when the step ended a send or recv call,    *)
(* "none" otherwise.                                                       *)
(*                                                                         *)
(* A message is the tuple of arguments of one send call.  The channel      *)
(* never looks into it, so the model names each message by the number of   *)
(* the push that enqueued it: the k-th message pushed is k.                *)
(***************************************************************************)
EXTENDS Integers, Sequences, FiniteSets

\* ------------------------------------------------------------- bounds ----
NThreads == 3
MaxSends == 3
MaxCap == 2

Threads == 1..NThreads

\* ------------------------------------------------- size_t arithmetic ----
\* A size_t is 64 bits wide: four 16-bit limbs, least significant first.
Limb == 65536

SizeT(n) == <<n % Limb, (n \div Limb) % Limb, 0, 0>>

SizeMax == <<Limb - 1, Limb - 1, Limb - 1, Limb - 1>>

\* a - b modulo 2^64, limb by limb with borrow
SubSizeT(a, b) ==
  LET d1 == a[1] - b[1]
      b1 == IF d1 < 0 THEN 1 ELSE 0
      d2 == a[2] - b[2] - b1
      b2 == IF d2 < 0 THEN 1 ELSE 0
      d3 == a[3] - b[3] - b2
      b3 == IF d3 < 0 THEN 1 ELSE 0
      d4 == a[4] - b[4] - b3
      W(d) == IF d < 0 THEN d + Limb ELSE d
  IN  <<W(d1), W(d2), W(d3), W(d4)>>

\* -------------------------------------------------------------- state ----
VARIABLES
  queue,           \* std::queue<tuple<Ts...>> queue
  closed,          \* bool closed
  sealed,          \* bool sealed
  dropped_count_,  \* size_t dropped_count_
  buffer_size,     \* unsigned int buffer_size
  pc,              \* where each thread is
  lastRet,         \* what the last step returned from send or recv
  sent,            \* history: messages pushed, in the order of the lock holds
  received,        \* history: messages handed out by recv, in that order
  sealQueue,       \* history: the queue when seal() took effect
  sealRecv,        \* history: Len(received) when seal() took effect
  closedBy,        \* history: "none", or who wrote closed = true
  closedWrites,    \* history: number of executions of closed = true
  nBroadcast       \* history: notify_all calls made by close() and seal()

chanVars == <<queue, closed, sealed, dropped_count_, buffer_size>>
histVars == <<sent, received, sealQueue, sealRecv, closedBy, closedWrites, nBroadcast>>
vars == <<queue, closed, sealed, dropped_count_, buffer_size, pc,
          lastRet, sent, received, sealQueue, sealRecv, closedBy,
          closedWrites, nBroadcast>>

\* The constructor leaves dropped_count_ uninitialised: any value.
Uninit == {SizeT(0), SizeMax}

Init ==
  /\ queue = <<>>
  /\ closed = FALSE
  /\ sealed = FALSE
  /\ dropped_count_ \in Uninit
  /\ buffer_size \in 0..MaxCap
  /\ pc = [t \in Threads |-> "idle"]
  /\ lastRet = "none"
  /\ sent = <<>>
  /\ received = <<>>
  /\ sealQueue = <<>>
  /\ sealRecv = 0
  /\ closedBy = "none"
  /\ closedWrites = 0
  /\ nBroadcast = 0

\* ------------------------------------------------ condition variable ----
Waiters == {t \in Threads : pc[t] \in {"send_wait", "recv_wait"}}

Woken(p) == IF p = "send_wait" THEN "send_woken" ELSE "recv_woken"

\* faulty variant: only one waiter is woken
NotifyAllAsOne(t, p) ==
  IF Waiters = {}
    THEN pc' = [pc EXCEPT ![t] = p]
    ELSE \E u \in Waiters : pc' = [pc EXCEPT ![t] = p, ![u] = Woken(pc[u])]

\* cv.notify_all() by thread t, which then is at pc p
NotifyAll(t, p) ==
  pc' = [u \in Threads |->
           IF u = t THEN p
           ELSE IF u \in Waiters THEN Woken(pc[u]) ELSE pc[u]]

\* faulty variant: the notification wakes nobody
NotifyOneLost(t, p) == pc' = [pc EXCEPT ![t] = p]

\* cv.notify_one() by thread t, which then is at pc p
NotifyOne(t, p) ==
  IF Waiters = {}
    THEN pc' = [pc EXCEPT ![t] = p]
    ELSE \E u \in Waiters : pc' = [pc EXCEPT ![t] = p, ![u] = Woken(pc[u])]

\* a waiting thread wakes without a notification
SpuriousWake(t) ==
  /\ t \in Waiters
  /\ pc' = [pc EXCEPT ![t] = Woken(pc[t])]
  /\ lastRet' = "none"
  /\ UNCHANGED <<chanVars, histVars>>

\* ---------------------------------------------------- close and seal ----
\* faulty variant: the early return is missing
CloseGuardMissing == FALSE

\* line 44
CloseGuard == closed

Close(t) ==
  /\ pc[t] = "idle"
  /\ lastRet' = "none"
  /\ IF CloseGuard
       THEN UNCHANGED <<chanVars, histVars, pc>>
       ELSE /\ closed' = TRUE
            /\ closedBy' = "close"
            /\ closedWrites' = closedWrites + 1
            /\ pc' = [pc EXCEPT ![t] = "close_notify"]
            /\ UNCHANGED <<queue, sealed, dropped_count_, buffer_size, sent,
                           received, sealQueue, sealRecv, nBroadcast>>

CloseNotify(t) ==
  /\ pc[t] = "close_notify"
  /\ NotifyAll(t, "idle")
  /\ nBroadcast' = nBroadcast + 1
  /\ lastRet' = "none"
  /\ UNCHANGED <<chanVars, sent, received, sealQueue, sealRecv,
                 closedBy, closedWrites>>

\* faulty variant: the closed test is missing
SealGuardSealedOnly == sealed

\* line 59
SealGuard == closed \/ sealed

Seal(t) ==
  /\ pc[t] = "idle"
  /\ lastRet' = "none"
  /\ IF SealGuard
       THEN UNCHANGED <<chanVars, histVars, pc>>
       ELSE /\ sealed' = TRUE
            /\ sealQueue' = queue
            /\ sealRecv' = Len(received)
            /\ pc' = [pc EXCEPT ![t] = "seal_notify"]
            /\ UNCHANGED <<queue, closed, dropped_count_, buffer_size, sent,
                           received, closedBy, closedWrites, nBroadcast>>

SealNotify(t) ==
  /\ pc[t] = "seal_notify"
  /\ NotifyAll(t, "idle")
  /\ nBroadcast' = nBroadcast + 1
  /\ lastRet' = "none"
  /\ UNCHANGED <<chanVars, sent, received, sealQueue, sealRecv,
                 closedBy, closedWrites>>

\* ------------------------------------------------------ introspection ----
\* Each accessor takes the lock, reads and returns: its result in a state is
\* what a call made in that state returns, and it changes nothing.
is_closed == closed

is_sealed == sealed

is_empty == queue = <<>>

is_full == IF buffer_size = 0 THEN FALSE ELSE Len(queue) >= buffer_size

size == Len(queue)

dropped_count == dropped_count_

\* --------------------------------------------------------------- send ----
\* line 91: the condition under which send<wait_while_full> calls cv.wait
SendMustWait(w) == w /\ ~closed /\ ~sealed /\ Len(queue) >= buffer_size

\* faulty variant: a woken sender goes on without testing for space
SendPredAlways == TRUE

\* line 92: the predicate of the wait
SendPred == closed \/ sealed \/ Len(queue) < buffer_size

\* faulty variant: the closed test is missing
SendRejectedSealedOnly == sealed

\* line 95
SendRejected == closed \/ sealed

\* faulty variant: the message goes to the head
PushFront(q, x) == <<x>> \o q

\* line 98: queue.push
Push(q, x) == Append(q, x)

\* line 102: queue.pop
Pop(q) == Tail(q)

\* line 140: queue.front
Front(q) == Head(q)

\* faulty variant: the loop stops one element early
TrimOffByOne(q) == IF Len(q) > buffer_size + 1 THEN Pop(q) ELSE q

\* faulty variant: the newest elements are dropped instead of the oldest
TrimNewest(q) == IF Len(q) > buffer_size THEN SubSeq(q, 1, buffer_size) ELSE q

\* lines 101-103: while (queue.size() > buffer_size) queue.pop();
RECURSIVE Trim(_)
Trim(q) == IF Len(q) > buffer_size THEN Trim(Pop(q)) ELSE q

\* faulty variant: the buffer_size > 0 test is missing
TrimmedUnguarded(q) == Trim(q)

\* lines 99-104, the queue: q is the queue after the push
Trimmed(q) == IF buffer_size > 0 THEN Trim(q) ELSE q

\* lines 86, 99-100, 105, the value stored in dropped_count_: the
\* subtraction is over size_t
Dropped(q) ==
  IF buffer_size > 0
    THEN SubSizeT(SizeT(Len(q)), SizeT(buffer_size))
    ELSE SizeT(0)

\* the message pushed next
NewMsg == Len(sent) + 1

\* lines 95-109, in one lock hold
SendBody(t) ==
  IF SendRejected
    THEN /\ pc' = [pc EXCEPT ![t] = "idle"]
         /\ lastRet' = "send_false"
         /\ UNCHANGED <<chanVars, histVars>>
    ELSE /\ queue' = Trimmed(Push(queue, NewMsg))
         /\ dropped_count_' = Dropped(Push(queue, NewMsg))
         /\ sent' = Append(sent, NewMsg)
         /\ pc' = [pc EXCEPT ![t] = "send_notify"]
         /\ lastRet' = "none"
         /\ UNCHANGED <<closed, sealed, buffer_size, received, sealQueue,
                        sealRecv, closedBy, closedWrites, nBroadcast>>

\* cv.wait releases the lock and suspends the caller
SendSuspend(t) ==
  /\ pc' = [pc EXCEPT ![t] = "send_wait"]
  /\ lastRet' = "none"
  /\ UNCHANGED <<chanVars, histVars>>

\* senders that are suspended or woken and have not pushed yet
SendersInWait == {t \in Threads : pc[t] \in {"send_wait", "send_woken"}}

\* send<w>(args...), from the call to the first unlock or wait
Send(t, w) ==
  /\ pc[t] = "idle"
  /\ Len(sent) + Cardinality(SendersInWait) < MaxSends
  /\ IF SendMustWait(w) /\ ~SendPred THEN SendSuspend(t) ELSE SendBody(t)

SendDrop(t) == Send(t, FALSE)

SendBlock(t) == Send(t, TRUE)

\* a notified sender gets the lock back and tests the predicate again
SendWake(t) ==
  /\ pc[t] = "send_woken"
  /\ IF SendPred THEN SendBody(t) ELSE SendSuspend(t)

\* lines 110-112
SendNotify(t) ==
  /\ pc[t] = "send_notify"
  /\ NotifyOne(t, "idle")
  /\ lastRet' = "send_true"
  /\ UNCHANGED <<chanVars, histVars>>

\* --------------------------------------------------------------- recv ----
\* line 126: the predicate of the wait
RecvPred == closed \/ queue # <<>> \/ (sealed /\ queue = <<>>)

\* faulty variant: the wait template argument is ignored
RecvMustWaitAlways(w) == ~sealed

\* line 125
RecvMustWait(w) == ~sealed /\ w

\* faulty variant: the closed test is missing
RecvClosedMissing == FALSE

\* line 129
RecvClosed == closed

\* faulty variant: the emptiness test is missing
RecvDrainedSealedOnly == sealed

\* line 131
RecvDrained == sealed /\ queue = <<>>

RecvReturnFalse(t) ==
  /\ pc' = [pc EXCEPT ![t] = "idle"]
  /\ lastRet' = "recv_false"
  /\ UNCHANGED <<chanVars, histVars>>

\* lines 129-147, in one lock hold
RecvBody(t) ==
  IF RecvClosed THEN RecvReturnFalse(t)
  ELSE IF RecvDrained
    THEN /\ closed' = TRUE
         /\ closedBy' = "recv"
         /\ closedWrites' = closedWrites + 1
         /\ pc' = [pc EXCEPT ![t] = "recv_close_notify"]
         /\ lastRet' = "none"
         /\ UNCHANGED <<queue, sealed, dropped_count_, buffer_size, sent,
                        received, sealQueue, sealRecv, nBroadcast>>
  ELSE IF queue = <<>> THEN RecvReturnFalse(t)
  ELSE /\ received' = Append(received, Front(queue))
       /\ queue' = Pop(queue)
       /\ pc' = [pc EXCEPT ![t] = IF Pop(queue) = <<>>
                                    THEN "recv_notify_all"
                                    ELSE "recv_notify_one"]
       /\ lastRet' = "none"
       /\ UNCHANGED <<closed, sealed, dropped_count_, buffer_size, sent,
                      sealQueue, sealRecv, closedBy, closedWrites, nBroadcast>>

RecvSuspend(t) ==
  /\ pc' = [pc EXCEPT ![t] = "recv_wait"]
  /\ lastRet' = "none"
  /\ UNCHANGED <<chanVars, histVars>>

\* recv<w>(out...), from the call to the first unlock or wait
Recv(t, w) ==
  /\ pc[t] = "idle"
  /\ IF RecvMustWait(w) /\ ~RecvPred THEN RecvSuspend(t) ELSE RecvBody(t)

RecvWait(t) == Recv(t, TRUE)

RecvPoll(t) == Recv(t, FALSE)

\* a notified receiver gets the lock back and tests the predicate again
RecvWake(t) ==
  /\ pc[t] = "recv_woken"
  /\ IF RecvPred THEN RecvBody(t) ELSE RecvSuspend(t)

\* lines 133-135
RecvCloseNotify(t) ==
  /\ pc[t] = "recv_close_notify"
  /\ NotifyAll(t, "idle")
  /\ lastRet' = "recv_false"
  /\ UNCHANGED <<chanVars, histVars>>

\* lines 144-145, 151
RecvNotifyAll(t) ==
  /\ pc[t] = "recv_notify_all"
  /\ NotifyAll(t, "idle")
  /\ lastRet' = "recv_true"
  /\ UNCHANGED <<chanVars, histVars>>

\* lines 147-148, 151
RecvNotifyOne(t) ==
  /\ pc[t] = "recv_notify_one"
  /\ NotifyOne(t, "idle")
  /\ lastRet' = "recv_true"
  /\ UNCHANGED <<chanVars, histVars>>

\* ------------------------------------------------------ specification ----
Next ==
  \E t \in Threads :
    \/ Close(t)
    \/ CloseNotify(t)
    \/ Seal(t)
    \/ SealNotify(t)
    \/ SendDrop(t)
    \/ SendBlock(t)
    \/ SendWake(t)
    \/ SendNotify(t)
    \/ RecvWait(t)
    \/ RecvPoll(t)
    \/ RecvWake(t)
    \/ RecvCloseNotify(t)
    \/ RecvNotifyAll(t)
    \/ RecvNotifyOne(t)
    \/ SpuriousWake(t)

Spec == Init /\ [][Next]_vars

\* Only send<true> and recv<true> are called, and neither close() nor seal().
NextWaiting ==
  \E t \in Threads :
    \/ SendBlock(t)
    \/ SendWake(t)
    \/ SendNotify(t)
    \/ RecvWait(t)
    \/ RecvWake(t)
    \/ RecvNotifyAll(t)
    \/ RecvNotifyOne(t)
    \/ SpuriousWake(t)

SpecWaiting == Init /\ [][NextWaiting]_vars

\* Every sender uses send<true>; receivers wait or poll.
NextBlocking ==
  \E t \in Threads :
    \/ Close(t)
    \/ CloseNotify(t)
    \/ Seal(t)
    \/ SealNotify(t)
    \/ SendBlock(t)
    \/ SendWake(t)
    \/ SendNotify(t)
    \/ RecvWait(t)
    \/ RecvPoll(t)
    \/ RecvWake(t)
    \/ RecvCloseNotify(t)
    \/ RecvNotifyAll(t)
    \/ RecvNotifyOne(t)
    \/ SpuriousWake(t)

SpecBlocking == Init /\ [][NextBlocking]_vars

\* A thread that is inside a call and not suspended runs on: it gets the
\* lock back after a notification, and it makes its notify call after its
\* unlock.  Nothing obliges a thread to make another call, and a wake-up
\* without notification need not happen.
Progress(t) ==
  \/ CloseNotify(t)
  \/ SealNotify(t)
  \/ SendWake(t)
  \/ SendNotify(t)
  \/ RecvWake(t)
  \/ RecvCloseNotify(t)
  \/ RecvNotifyAll(t)
  \/ RecvNotifyOne(t)

Fairness == \A t \in Threads : WF_vars(Progress(t))

FairSpec == Spec /\ Fairness

FairBlocking == SpecBlocking /\ Fairness

\* ----------------------------------------------------------- teardown ----
\* ~channel() { close(); } and then the members (queue, m, cv, the flags) are
\* destroyed.  The channel is destroyed by one thread while the others are
\* outside any call or suspended in the wait set; that thread ends at pc
\* "destroyed".
Destroyed == \E t \in Threads : pc[t] = "destroyed"

InDtor == \E t \in Threads : pc[t] \in {"dtor_notify", "dtor_release", "destroyed"}

\* line 39 with lines 43-49 of close(); an early return of close() ends the
\* destructor's body at once
Dtor(t) ==
  /\ pc[t] = "idle"
  /\ ~InDtor
  /\ \A u \in Threads : pc[u] \in {"idle", "send_wait", "recv_wait"}
  /\ lastRet' = "none"
  /\ IF CloseGuard
       THEN /\ pc' = [pc EXCEPT ![t] = "dtor_release"]
            /\ UNCHANGED <<chanVars, histVars>>
       ELSE /\ closed' = TRUE
            /\ closedBy' = "close"
            /\ closedWrites' = closedWrites + 1
            /\ pc' = [pc EXCEPT ![t] = "dtor_notify"]
            /\ UNCHANGED <<queue, sealed, dropped_count_, buffer_size, sent,
                           received, sealQueue, sealRecv, nBroadcast>>

\* line 50 of close(), called from the destructor
DtorNotify(t) ==
  /\ pc[t] = "dtor_notify"
  /\ NotifyAll(t, "dtor_release")
  /\ nBroadcast' = nBroadcast + 1
  /\ lastRet' = "none"
  /\ UNCHANGED <<chanVars, sent, received, sealQueue, sealRecv,
                 closedBy, closedWrites>>

\* the end of the destructor: the members are destroyed; nothing waits for
\* the woken callers
DtorRelease(t) ==
  /\ pc[t] = "dtor_release"
  /\ pc' = [pc EXCEPT ![t] = "destroyed"]
  /\ lastRet' = "none"
  /\ UNCHANGED <<chanVars, histVars>>

\* A woken caller that runs after the members are gone locks a destroyed
\* mutex and reads destroyed flags: any outcome is possible, it returns
\* either value or never returns.
AfterRelease(t) ==
  /\ Destroyed
  /\ pc[t] \in {"send_woken", "recv_woken"}
  /\ \E p \in {"idle", "crashed"} : pc' = [pc EXCEPT ![t] = p]
  /\ IF pc'[t] = "crashed"
       THEN lastRet' = "none"
       ELSE IF pc[t] = "send_woken"
         THEN lastRet' \in {"send_true", "send_false"}
         ELSE lastRet' \in {"recv_true", "recv_false"}
  /\ UNCHANGED <<chanVars, histVars>>

\* Before the destructor starts the threads use the channel as in Next;
\* between its notify_all and the release the woken callers may run.
NextTeardown ==
  \/ ~InDtor /\ Next
  \/ \E t \in Threads : ~Destroyed /\ InDtor /\ SendWake(t)
  \/ \E t \in Threads : ~Destroyed /\ InDtor /\ RecvWake(t)
  \/ \E t \in Threads : Dtor(t)
  \/ \E t \in Threads : DtorNotify(t)
  \/ \E t \in Threads : DtorRelease(t)
  \/ \E t \in Threads : AfterRelease(t)

SpecTeardown == Init /\ [][NextTeardown]_vars

\* ------------------------------------------------------------- claims ----
RECURSIVE IsSubseq(_, _)
IsSubseq(a, b) ==
  IF a = <<>> THEN TRUE
  ELSE IF b = <<>> THEN FALSE
  ELSE IF Head(a) = Head(b) THEN IsSubseq(Tail(a), Tail(b))
  ELSE IsSubseq(a, Tail(b))

\* messages pushed that are neither queued nor received: evicted by overflow
Evictions == Len(sent) - Len(received) - Len(queue)

\* the pcs from which a call returns true (lines 110-112 and 144-151)
ReturnTruePcs == {"send_notify", "recv_notify_all", "recv_notify_one"}

\* thread t completes a push in this step (lines 98-109)
Pushes(t) == pc[t] \in {"idle", "send_woken"} /\ pc'[t] = "send_notify"

\* C1: the messages handed out by recv, in lock order, are a subsequence of
\* the messages pushed, in lock order; while nothing has been evicted, the
\* received messages followed by the queue are exactly the pushed messages,
\* so the received ones are a prefix.
FifoDelivery ==
  /\ IsSubseq(received, sent)
  /\ Evictions = 0 => received \o queue = sent

FifoWitness == Len(received) >= 2 /\ Evictions > 0 /\ lastRet = "recv_true"

\* C2: with capacity > 0 the queue never holds more than capacity elements
\* in a state in which the lock is free (every state of the model).
CapacityInvariant == buffer_size > 0 => Len(queue) <= buffer_size

CapacityWitness ==
  /\ buffer_size = 2
  /\ Len(queue) = 2
  /\ Len(sent) = 3
  /\ lastRet = "send_true"

\* C3 as stated: once Closed, no send or recv call returns true.
HardCloseEveryReturn ==
  [][closed => lastRet' \notin {"send_true", "recv_true"}]_vars

\* C3 amended: once Closed, every send or recv call that takes the lock (at
\* its start, or on waking from its wait) returns false and leaves the queue
\* alone, even when the queue holds messages: no thread that has not already
\* pushed or popped reaches a return of true, a woken thread that runs
\* returns, and the queue does not change.
HardClose ==
  [][closed =>
       /\ queue' = queue
       /\ \A t \in Threads :
            /\ pc[t] \notin ReturnTruePcs => pc'[t] \notin ReturnTruePcs
            /\ pc[t] = "idle" => pc'[t] = "idle"
            /\ (pc[t] = "send_woken" /\ pc'[t] # pc[t]) =>
                 (pc'[t] = "idle" /\ lastRet' = "send_false")
            /\ (pc[t] = "recv_woken" /\ pc'[t] # pc[t]) =>
                 (pc'[t] = "idle" /\ lastRet' = "recv_false")]_vars

HardCloseWitness ==
  /\ closedBy = "close"
  /\ queue # <<>>
  /\ lastRet = "recv_false"
  /\ \E t \in Threads : pc[t] = "send_woken"

\* C4: after seal() took effect with n messages queued, and as long as
\* close() has not closed the channel, the receives that succeeded since are
\* the first k of those n messages in order, the queue is the rest, and the
\* channel is Closed only when k = n; the transition to Closed is made by a
\* recv that finds the queue empty, every recv that finds it empty makes it,
\* that recv returns false, and no recv suspends once the channel is Sealed.
SealDrainState ==
  (sealed /\ closedBy # "close") =>
    LET n == Len(sealQueue)
        k == Len(received) - sealRecv
    IN  /\ k >= 0 /\ k <= n
        /\ SubSeq(received, sealRecv + 1, Len(received)) = SubSeq(sealQueue, 1, k)
        /\ queue = SubSeq(sealQueue, k + 1, n)
        /\ is_closed => k = n

SealDrainStep ==
  sealed =>
    /\ \A t \in Threads : pc'[t] = "recv_wait" => pc[t] = "recv_wait"
    /\ (~closed /\ closed' /\ closedBy' = "recv") =>
         /\ queue = <<>>
         /\ \E t \in Threads : pc[t] # pc'[t] /\ pc'[t] = "recv_close_notify"
    /\ \A t \in Threads :
         (~closed /\ queue = <<>> /\ (RecvWait(t) \/ RecvPoll(t) \/ RecvWake(t)))
           => closed' /\ closedBy' = "recv"
    /\ \A t \in Threads :
         (pc[t] = "recv_close_notify" /\ pc'[t] = "idle") => lastRet' = "recv_false"

SealDrainClose == []SealDrainState /\ [][SealDrainStep]_vars

SealDrainWitness ==
  /\ closedBy = "recv"
  /\ Len(sealQueue) = 2
  /\ Len(received) = sealRecv + 2
  /\ lastRet = "recv_false"

\* C5: with capacity c > 0, a send<false> on an Open channel pushes; a push
\* onto a queue of length c (possible only for send<false>) leaves the queue
\* without its head and with the new message at the tail; a push onto a
\* shorter queue only appends.
DropOldest ==
  [][\A t \in Threads :
       /\ (SendDrop(t) /\ ~closed /\ ~sealed) => Pushes(t)
       /\ (Pushes(t) /\ buffer_size > 0) =>
            IF Len(queue) >= buffer_size
              THEN /\ pc[t] = "idle"
                   /\ Len(queue) = buffer_size
                   /\ queue' = Append(Tail(queue), NewMsg)
              ELSE queue' = Append(queue, NewMsg)]_vars

DropOldestWitness ==
  /\ buffer_size = 2
  /\ sent = <<1, 2, 3>>
  /\ queue = <<2, 3>>
  /\ \E t \in Threads : pc[t] = "send_notify"

\* C6 as stated: after a push with capacity >= 1, dropped_count() is the
\* number of elements the send removed, which is 0 or 1.
PerCallOverflowCount ==
  [][\A t \in Threads :
       (Pushes(t) /\ buffer_size >= 1) =>
         /\ dropped_count' = SizeT(Len(queue) + 1 - Len(queue'))
         /\ dropped_count' \in {SizeT(0), SizeT(1)}]_vars

\* C7: with capacity 0, is_full() is false in every state, and every push
\* stores 0 in the dropped count and only appends to the queue.
UnboundedMode ==
  /\ buffer_size = 0 => ~is_full
  /\ [][buffer_size = 0 =>
          /\ ~is_full'
          /\ \A t \in Threads :
               Pushes(t) =>
                 /\ dropped_count' = SizeT(0)
                 /\ queue' = Append(queue, NewMsg)]_vars

UnboundedWitness ==
  /\ buffer_size = 0
  /\ queue = <<1, 2, 3>>
  /\ dropped_count = SizeT(0)
  /\ lastRet = "send_true"

\* C8 as stated: with capacity 0 no send suspends.
NoSuspendAtCapacityZero ==
  buffer_size = 0 => \A t \in Threads : pc[t] \notin {"send_wait", "send_woken"}

\* C9: the flags are never reset, and once closed is set neither flag
\* changes: the state moves only Open -> Sealed, Open -> Closed or
\* Sealed -> Closed.
StateMonotone ==
  [][/\ closed => (closed' /\ sealed' = sealed)
     /\ sealed => sealed']_vars

StateMonotoneWitness ==
  /\ closed
  /\ sealed
  /\ closedBy = "close"
  /\ lastRet = "send_false"

\* C10: a close() on a Closed channel and a seal() on a Sealed or Closed
\* channel change no field and start no notify_all; every close() or seal()
\* that changes the state makes exactly one notify_all; closed = true is
\* executed at most once over close() and the recv transition.
NotifyPending ==
  Cardinality({t \in Threads : pc[t] \in {"close_notify", "seal_notify"}})

IdempotentStep ==
  \A t \in Threads :
    ((Close(t) /\ closed) \/ (Seal(t) /\ (closed \/ sealed))) =>
      UNCHANGED <<chanVars, pc, histVars>>

IdempotentOnce ==
  /\ [](closedWrites <= 1)
  /\ [](nBroadcast + NotifyPending =
          (IF sealed THEN 1 ELSE 0) + (IF closedBy = "close" THEN 1 ELSE 0))
  /\ [][IdempotentStep]_vars

IdempotentWitness ==
  /\ sealed
  /\ closedBy = "close"
  /\ closedWrites = 1
  /\ nBroadcast = 2

\* C11: a send that finds the channel Sealed or Closed, at its start or on
\* waking, returns false in that lock hold, changes no field of the channel
\* and wakes nobody: only the caller's own pc changes.
SendStep(t) == SendDrop(t) \/ SendBlock(t) \/ SendWake(t)

RejectedSendUnchanged ==
  [][/\ (closed \/ sealed) =>
          \A t \in Threads :
            SendStep(t) =>
              /\ lastRet' = "send_false"
              /\ pc' = [pc EXCEPT ![t] = "idle"]
     /\ lastRet' = "send_false" =>
          /\ closed \/ sealed
          /\ UNCHANGED <<queue, closed, sealed, dropped_count_, buffer_size>>
          /\ \A u \in Threads : pc'[u] # pc[u] => pc'[u] = "idle"
          /\ Waiters' = Waiters]_vars

RejectedSendWitness ==
  /\ lastRet = "send_false"
  /\ sealed
  /\ ~closed
  /\ queue # <<>>
  /\ Waiters # {}

\* C12: recv<false> never suspends; on an Open channel with an empty queue
\* it returns false and changes nothing; on a non-empty channel that is not
\* Closed it removes the head and hands it out; on a Sealed channel with an
\* empty queue it moves the channel to Closed and returns false.
PollingRecv ==
  [][\A t \in Threads :
       /\ RecvPoll(t) =>
            /\ pc'[t] # "recv_wait"
            /\ (~closed /\ ~sealed /\ queue = <<>>) =>
                 /\ lastRet' = "recv_false"
                 /\ UNCHANGED <<chanVars, pc, histVars>>
            /\ (~closed /\ queue # <<>>) =>
                 /\ queue' = Tail(queue)
                 /\ received' = Append(received, Head(queue))
                 /\ pc'[t] \in {"recv_notify_all", "recv_notify_one"}
            /\ (~closed /\ sealed /\ queue = <<>>) =>
                 /\ closed'
                 /\ pc'[t] = "recv_close_notify"
       /\ (pc[t] = "recv_close_notify" /\ pc'[t] = "idle") =>
            lastRet' = "recv_false"
       /\ (pc[t] \in {"recv_notify_all", "recv_notify_one"} /\ pc'[t] = "idle") =>
            lastRet' = "recv_true"]_vars

\* a recv returned false on an Open channel: only a poll does
PollingRecvWitness ==
  /\ lastRet = "recv_false"
  /\ ~closed
  /\ ~sealed
  /\ queue = <<>>
  /\ sent # <<>>

\* C17: once the channel is Closed the queue never changes.
ClosedFreezesQueue == [][closed => queue' = queue]_vars

ClosedFreezesWitness ==
  /\ closedBy = "close"
  /\ Len(queue) = 2
  /\ lastRet = "recv_false"

\* every thread is outside any call or suspended in the wait set
NobodyRuns == \A u \in Threads : pc[u] \in {"idle", "send_wait", "recv_wait"}

Open == ~closed /\ ~sealed

\* C13 as stated: with capacity >= 1, blocking senders and waiting receivers,
\* no receiver is suspended on an Open channel with a non-empty queue while
\* no thread runs or has been woken.
NoLostWakeupReceivers ==
  ~ /\ buffer_size >= 1
    /\ Open
    /\ queue # <<>>
    /\ \E t \in Threads : pc[t] = "recv_wait"
    /\ NobodyRuns

\* C14 as stated: the notify_one of a send that returns true while a
\* receiver is suspended wakes a suspended receiver.
SendWakesReceiver ==
  [][\A t \in Threads :
       (/\ pc[t] = "send_notify"
        /\ pc'[t] = "idle"
        /\ \E r \in Threads : pc[r] = "recv_wait")
         => \E r \in Threads : pc[r] = "recv_wait" /\ pc'[r] = "recv_woken"]_vars

\* C18: with capacity >= 1 and only send<true>, every push finds fewer than
\* capacity elements and only appends, so the received messages followed by
\* the queue are exactly the pushed messages: none is lost, none is handed
\* out twice.
BlockingLosesNothing ==
  /\ [](buffer_size >= 1 => received \o queue = sent)
  /\ [][\A t \in Threads :
          (buffer_size >= 1 /\ Pushes(t)) =>
            /\ Len(queue) < buffer_size
            /\ queue' = Append(queue, NewMsg)]_vars

BlockingWitness ==
  /\ buffer_size = 1
  /\ Len(sent) = 3
  /\ Len(received) = 2
  /\ queue = <<3>>
  /\ lastRet = "send_true"

\* C19: with capacity >= 1 and only send<true>, no sender is suspended on an
\* Open channel with a free slot while no thread runs or has been woken; and
\* no sender stays suspended or woken for ever while the channel stays Open
\* with a free slot.
SenderStuck(t) ==
  /\ buffer_size >= 1
  /\ Open
  /\ Len(queue) < buffer_size
  /\ pc[t] \in {"send_wait", "send_woken"}

NoLostWakeupSenders ==
  /\ [](~ \E t \in Threads : pc[t] = "send_wait" /\ SenderStuck(t) /\ NobodyRuns)
  /\ \A t \in Threads : []<>(~SenderStuck(t))

\* a sender is suspended while a slot is free: its wake-up is on the way
SenderWitness ==
  /\ buffer_size = 2
  /\ Open
  /\ Len(queue) = 1
  /\ \E t \in Threads : pc[t] = "send_wait"
  /\ \E u \in Threads : pc[u] = "recv_notify_one"

\* C15: once the channel is Sealed or Closed no call suspends; a woken
\* sender that runs returns false; a woken receiver that runs returns false
\* when the channel is Closed, and otherwise pops a message or makes the
\* transition to Closed; and every caller suspended or woken at that time
\* is eventually out of its wait.
InWait(t) == pc[t] \in {"send_wait", "send_woken", "recv_wait", "recv_woken"}

NoSuspensionStep ==
  (closed \/ sealed) =>
    \A t \in Threads :
      /\ pc'[t] \in {"send_wait", "recv_wait"} => pc'[t] = pc[t]
      /\ (pc[t] = "send_woken" /\ pc'[t] # pc[t]) =>
           (pc'[t] = "idle" /\ lastRet' = "send_false")
      /\ (pc[t] = "recv_woken" /\ pc'[t] # pc[t]) =>
           IF closed
             THEN pc'[t] = "idle" /\ lastRet' = "recv_false"
             ELSE pc'[t] \in {"recv_notify_all", "recv_notify_one",
                              "recv_close_notify"}

NoSuspensionOutsideOpen ==
  /\ [][NoSuspensionStep]_vars
  /\ (closed \/ sealed) ~> (\A t \in Threads : ~InWait(t))

NoSuspensionWitness ==
  /\ closedBy = "close"
  /\ \E t \in Threads : pc[t] = "send_wait"
  /\ \E u \in Threads : pc[u] = "recv_wait"

\* C16 as stated: when the destructor has finished and the members are
\* released, every caller that was suspended in send<true> or recv<true>
\* has returned: none is still suspended, and none is woken with the lock,
\* the flags and the queue still to read.
SafeTeardown == Destroyed => \A t \in Threads : ~InWait(t)

====
